---------------------------- MODULE Spec2Model ----------------------------
(***************************************************************************)
(* A model of python/sglang/srt/models/nemotron_nas.py: the DeciLM          *)
(* (Nemotron-NAS) decoder with per-layer optional attention and             *)
(* feed-forward blocks.                                                     *)
(*                                                                          *)
(* The module holds four state machines over one set of variables:         *)
(*   SpecFfn     _ffn_mult_to_intermediate_size / _find_multiple            *)
(*   SpecForward DeciModel.__init__, DeciModel.forward and                  *)
(*               DeciLMDecoderLayer.forward along a pipeline of ranks       *)
(*   SpecLoad    DeciLMForCausalLM.load_weights / DeciModel.load_weights    *)
(*   SpecSample  DeciLMForCausalLM.sample / _preprocess_logits              *)
(* Each specification leaves the variables of the others at their idle     *)
(* values.                                                                  *)
(***************************************************************************)
EXTENDS Integers, Sequences, FiniteSets, TLC

VARIABLES
    \* ---- _ffn_mult_to_intermediate_size ----
    ffn_pc,             \* "call" | "return"
    ffn_mult_num,       \* ffn_mult = ffn_mult_num / FfnMultDen
    n_embd,             \* hidden size
    intermediate_size,  \* the returned value (None before the return)
    \* ---- DeciModel.__init__ / DeciModel.forward ----
    config,             \* block_configs, hidden_size, tie_word_embeddings
    pp_size,            \* number of pipeline ranks
    models,             \* per rank: embed_tokens, layers, norm (None before __init__)
    rank,               \* the rank whose forward is running
    pc,                 \* "new" | "ready" | "layers" | "returned" | "raised"
    input_ids,          \* forward argument
    inputs_embeds,      \* forward argument (optional tensor)
    intermediate_tensors, \* forward argument (optional hidden_states/residual)
    hidden_states,      \* local of forward
    residual,           \* local of forward (optional tensor)
    layer_i,            \* number of layers the loop of forward has run
    ret,                \* what forward returned
    \* history of the running forward call, for the statements about it
    calls,              \* modules invoked, in order: [rank, layer, module]
    stack_input,        \* the tensors forward started from
    block_outputs,      \* outputs of the attention/mlp modules invoked so far
    residual_src,       \* where the value of residual came from
    \* ---- load_weights ----
    lw_pc,              \* "loading" | "returned" | "raised"
    quant_config,       \* None, or "fp8": a config with kv-cache scales
    attention_bias,     \* config.attention_bias: qkv_proj has a bias
    params_dict,        \* dict(self.named_parameters()): the names
    params,             \* what the weight loaders have written: [name, shard_id, value]
    loaded_params,      \* the set DeciModel.load_weights builds and returns
    called,             \* parameters a weight loader was called for, this call
    autoloaded,         \* the set DeciLMForCausalLM.load_weights returns
    lw_group,           \* the module the loader is streaming entries to
    lw_count,           \* entries read from the checkpoint so far
    lw_last,            \* the entry read last and what became of it
    lw_prev_kind,       \* what became of the entry before it
    \* ---- DeciLMForCausalLM.sample ----
    smp_pc,             \* "call" | "preprocess" | "sampler" | "return"
    logits_output,      \* one LogitsProcessorOutput, or a tuple of them
    sampling_info_done, \* sampling_info.sampling_info_done: None or an Event
    event_set,          \* whether that Event has been set
    grammars,           \* whether sampling_info.grammars is non-empty
    smp_i,              \* the element of logits_output being sampled
    events,             \* the calls sample has made, in order: [op, stream]
    next_token_ids      \* the sampler's results so far

ffnVars == <<ffn_pc, ffn_mult_num, n_embd, intermediate_size>>

fwdVars == <<config, pp_size, models, rank, pc, input_ids, inputs_embeds,
             intermediate_tensors, hidden_states, residual, layer_i, ret,
             calls, stack_input, block_outputs, residual_src>>

lwVars == <<lw_pc, quant_config, attention_bias, params_dict, params,
            loaded_params, called, autoloaded, lw_group, lw_count, lw_last,
            lw_prev_kind>>

smpVars == <<smp_pc, logits_output, sampling_info_done, event_set, grammars,
             smp_i, events, next_token_ids>>

vars == <<ffnVars, fwdVars, lwVars, smpVars>>

None == "None"

\* Optional tensors. A tensor of shape [num_tokens, hidden_size] is the
\* sequence of its rows, each row abstracted to one integer; a 1-D tensor of
\* shape [hidden_size] is a sequence of one row.
NoTensor == [is_none |-> TRUE, rows |-> <<>>]
Tensor(rows) == [is_none |-> FALSE, rows |-> rows]

\* Optional IntermediateTensors({"hidden_states": ..., "residual": ...}).
NoIntermediateTensors ==
    [is_none |-> TRUE, hidden_states |-> NoTensor, residual |-> NoTensor]
IntermediateTensors(hs, res) ==
    [is_none |-> FALSE, hidden_states |-> hs, residual |-> res]

NoReturn == [kind |-> "none", hidden_states |-> NoTensor, residual |-> NoTensor]

FfnIdle ==
    /\ ffn_pc = "idle"
    /\ ffn_mult_num = 0
    /\ n_embd = 0
    /\ intermediate_size = None

FwdIdle ==
    /\ config = [block_configs |-> <<>>, hidden_size |-> 0,
                 tie_word_embeddings |-> FALSE]
    /\ pp_size = 1
    /\ models = <<>>
    /\ rank = 0
    /\ pc = "idle"
    /\ input_ids = <<>>
    /\ inputs_embeds = NoTensor
    /\ intermediate_tensors = NoIntermediateTensors
    /\ hidden_states = NoTensor
    /\ residual = NoTensor
    /\ layer_i = 0
    /\ ret = NoReturn
    /\ calls = <<>>
    /\ stack_input = <<>>
    /\ block_outputs = <<>>
    /\ residual_src = "None"

NoEntry ==
    [name |-> "", weight |-> [dim |-> 0, data |-> <<>>], kind |-> "none",
     dispatched |-> "", loads |-> <<>>, added |-> "",
     params_before |-> {}, loaded_before |-> {}]

LoadIdle ==
    /\ lw_pc = "idle"
    /\ quant_config = None
    /\ attention_bias = FALSE
    /\ params_dict = {}
    /\ params = {}
    /\ loaded_params = {}
    /\ called = {}
    /\ autoloaded = {}
    /\ lw_group = ""
    /\ lw_count = 0
    /\ lw_last = NoEntry
    /\ lw_prev_kind = "none"

SampleIdle ==
    /\ smp_pc = "idle"
    /\ logits_output = [is_tuple |-> FALSE, values |-> <<>>]
    /\ sampling_info_done = None
    /\ event_set = FALSE
    /\ grammars = FALSE
    /\ smp_i = 0
    /\ events = <<>>
    /\ next_token_ids = <<>>

-----------------------------------------------------------------------------
(***************************************************************************)
(* Intermediate-size rounding.                                             *)
(***************************************************************************)

\* ffn_mult is a float; the model draws it from the multiples of
\* 1/FfnMultDen up to MaxFfnMultNum/FfnMultDen, which the float arithmetic of
\* line 53 represents and divides exactly in this range.
FfnMultDen == 8
MaxFfnMultNum == 24
MaxEmbd == 400

\* the k of _find_multiple(intermediate_size, 256)
SizeMultiple == 256

\* A faulty variant of _find_multiple: the n % k == 0 early return is missing.
FindMultipleAlwaysRoundsUp(n, k) == n + k - (n % k)

\* def _find_multiple(n, k)
_find_multiple(n, k) ==
    IF n % k = 0 THEN n ELSE n + k - (n % k)

\* int(2 * ffn_mult * n_embd / 3), for ffn_mult = num / FfnMultDen >= 0:
\* int() truncates, which is the floor of a non-negative quotient.
IntPart(num, embd) == (2 * num * embd) \div (3 * FfnMultDen)

\* def _ffn_mult_to_intermediate_size(ffn_mult, n_embd)
_ffn_mult_to_intermediate_size(num, embd) ==
    _find_multiple(IntPart(num, embd), SizeMultiple)

InitFfn ==
    /\ ffn_pc = "call"
    /\ ffn_mult_num \in 0..MaxFfnMultNum
    /\ n_embd \in 0..MaxEmbd
    /\ intermediate_size = None
    /\ FwdIdle
    /\ LoadIdle
    /\ SampleIdle

FfnReturn ==
    /\ ffn_pc = "call"
    /\ intermediate_size' = _ffn_mult_to_intermediate_size(ffn_mult_num, n_embd)
    /\ ffn_pc' = "return"
    /\ UNCHANGED <<ffn_mult_num, n_embd>>
    /\ UNCHANGED <<fwdVars, lwVars, smpVars>>

NextFfn == FfnReturn

SpecFfn == InitFfn /\ [][NextFfn]_vars

\* C1: for every ffn_mult >= 0 and n_embd >= 0 the returned size is a
\* multiple of 256 and is the smallest multiple of 256 that is >= the integer
\* part of 2*ffn_mult*n_embd/3: it is at least the integer part, exceeds it by
\* less than 256, and equals it when the integer part is a multiple of 256.
C1_SmallestMultipleOf256 ==
    ffn_pc = "return" =>
        LET n == IntPart(ffn_mult_num, n_embd) IN
        /\ intermediate_size % 256 = 0
        /\ intermediate_size >= n
        /\ intermediate_size - n < 256
        /\ (n % 256 = 0 => intermediate_size = n)
        /\ \A m \in 0..(intermediate_size \div 256) :
              256 * m >= n => 256 * m >= intermediate_size

\* C1 witness: a positive integer part that is already a multiple of 256 has
\* been returned unchanged, e.g. ffn_mult = 1.5, n_embd = 256.
C1_Witness ==
    /\ ffn_pc = "return"
    /\ IntPart(ffn_mult_num, n_embd) > 0
    /\ IntPart(ffn_mult_num, n_embd) % 256 = 0
    /\ intermediate_size = IntPart(ffn_mult_num, n_embd)

-----------------------------------------------------------------------------
(***************************************************************************)
(* The decoder stack: construction and forward.                            *)
(***************************************************************************)

MaxLayers == 2
MaxTokens == 2
MaxTokenId == 2
MaxPP == 2

\* get_pp_group().is_first_rank / .is_last_rank for rank r of pp_size ranks
IsFirstRank(r) == r = 0
IsLastRank(r) == r = pp_size - 1

\* config.block_configs[layer_idx]: attention.no_op, ffn.no_op, ffn.ffn_mult
BlockConfigs ==
    [attention : [no_op : BOOLEAN],
     ffn : [no_op : BOOLEAN, ffn_mult_num : {FfnMultDen, MaxFfnMultNum}]]

Configs ==
    UNION {[block_configs : [1..n -> BlockConfigs],
            hidden_size : {MaxEmbd},
            tie_word_embeddings : BOOLEAN] : n \in 1..MaxLayers}

\* A faulty variant of DeciLMDecoderLayer.__init__: post_attention_layernorm is built
\* with the attention block instead of with the feed-forward block.
DecoderLayerInitNormWithAttention(cfg, layer_idx) ==
    LET block_config == cfg.block_configs[layer_idx + 1]
        no_attn == block_config.attention.no_op
        no_ffn == block_config.ffn.no_op
    IN  [_is_no_op_attention |-> no_attn,
         _is_no_op_ffn |-> no_ffn,
         modules |->
            (IF ~no_attn
             THEN {"self_attn", "input_layernorm", "post_attention_layernorm"}
             ELSE {})
            \cup (IF ~no_ffn THEN {"mlp"} ELSE {}),
         intermediate_size |->
            IF ~no_ffn
            THEN _ffn_mult_to_intermediate_size(block_config.ffn.ffn_mult_num,
                                                cfg.hidden_size)
            ELSE 0]

\* DeciLMDecoderLayer.__init__(config, layer_idx): the sub-modules the layer
\* gets (layer_idx counts from 0).
DeciLMDecoderLayer_init(cfg, layer_idx) ==
    LET block_config == cfg.block_configs[layer_idx + 1]
        no_attn == block_config.attention.no_op
        no_ffn == block_config.ffn.no_op
    IN  [_is_no_op_attention |-> no_attn,
         _is_no_op_ffn |-> no_ffn,
         modules |->
            (IF ~no_attn THEN {"self_attn", "input_layernorm"} ELSE {})
            \cup (IF ~no_ffn THEN {"mlp", "post_attention_layernorm"} ELSE {}),
         intermediate_size |->
            IF ~no_ffn
            THEN _ffn_mult_to_intermediate_size(block_config.ffn.ffn_mult_num,
                                                cfg.hidden_size)
            ELSE 0]

\* DeciModel.__init__ on rank r: embed_tokens, the layers, norm.
DeciModel_init(cfg, r) ==
    [embed_tokens |->
        IF IsFirstRank(r) \/ (cfg.tie_word_embeddings /\ IsLastRank(r))
        THEN "VocabParallelEmbedding" ELSE "PPMissingLayer",
     layers |-> [idx \in 1..Len(cfg.block_configs) |->
                    DeciLMDecoderLayer_init(cfg, idx - 1)],
     norm |-> IF IsLastRank(r) THEN "RMSNorm" ELSE "PPMissingLayer"]

\* ---- the modules the stack delegates to ----

AddRows(a, b) == [k \in 1..Len(a) |-> a[k] + b[k]]

\* The row-wise normalisation of RMSNorm: any value is scaled into a fixed range.
Norm(rows) == [k \in 1..Len(rows) |-> (rows[k] % 5) + 1]

\* RMSNorm.forward(x, residual=None): without a residual it returns the
\* normalised tensor alone; with one it returns the pair
\* (norm(x + residual), x + residual).
RMSNorm_forward(x, res) ==
    IF res.is_none
    THEN [pair |-> FALSE, out |-> Tensor(Norm(x.rows)), residual |-> NoTensor]
    ELSE LET sum == AddRows(x.rows, res.rows)
         IN  [pair |-> TRUE, out |-> Tensor(Norm(sum)), residual |-> Tensor(sum)]

\* VocabParallelEmbedding.forward(input_ids)
Embed(ids) == [k \in 1..Len(ids) |-> 3 * ids[k] + 1]

\* LlamaAttention.forward / LlamaMLP.forward of layer idx
SelfAttn(idx, rows) == [k \in 1..Len(rows) |-> 2 * rows[k] + idx]
Mlp(idx, rows) == [k \in 1..Len(rows) |-> 3 * rows[k] + idx + 1]

\* The assignment `a, b = r` of a normalisation result. A pair unpacks into its
\* two members. A single tensor is iterated over its first dimension: with
\* exactly two rows the rows become a and b, otherwise ValueError is raised.
UnpackPair(r) ==
    IF r.pair
    THEN [raised |-> FALSE, split |-> FALSE,
          first |-> r.out, second |-> r.residual]
    ELSE IF Len(r.out.rows) = 2
    THEN [raised |-> FALSE, split |-> TRUE,
          first |-> Tensor(<<r.out.rows[1]>>),
          second |-> Tensor(<<r.out.rows[2]>>)]
    ELSE [raised |-> TRUE, split |-> FALSE,
          first |-> NoTensor, second |-> NoTensor]

\* A call of a module, and the residual argument it was given: "None", or
\* "Tensor". The modules that take no residual are noted with "None" too.
Call(module, res) ==
    [module |-> module, residual |-> IF res.is_none THEN "None" ELSE "Tensor"]

\* A faulty variant of DeciLMDecoderLayer.forward: a layer with no-op attention
\* still passes hidden_states through input_layernorm.
DecoderLayerForwardNormOnNoOp(layer, idx, hs, res, src) ==
    LET \* Self Attention, lines 165-178
        n1 == RMSNorm_forward(hs, res)
        u1 == UnpackPair(n1)
        a_in == IF res.is_none THEN n1.out ELSE u1.first
        a_res == IF res.is_none THEN hs ELSE u1.second
        a_out == Tensor(SelfAttn(idx, a_in.rows))
        no_attn == layer._is_no_op_attention
        hs1 == IF no_attn THEN a_in ELSE a_out
        res1 == IF no_attn THEN res ELSE a_res
        src1 == IF no_attn THEN src
                ELSE IF res.is_none THEN "hidden_states" ELSE "add"
        calls1 == IF no_attn THEN <<Call("input_layernorm", res)>>
                  ELSE <<Call("input_layernorm", res), Call("self_attn", NoTensor)>>
        outs1 == IF no_attn THEN <<>> ELSE <<a_out.rows>>
        \* Fully Connected, lines 181-184
        n2 == RMSNorm_forward(hs1, res1)
        u2 == UnpackPair(n2)
        m_out == Tensor(Mlp(idx, u2.first.rows))
    IN  IF layer._is_no_op_ffn
        THEN [raised |-> FALSE, hidden_states |-> hs1, residual |-> res1,
              calls |-> calls1, outs |-> outs1, src |-> src1]
        ELSE IF u2.raised
        THEN [raised |-> TRUE, hidden_states |-> hs1, residual |-> res1,
              calls |-> calls1 \o <<Call("post_attention_layernorm", res1)>>,
              outs |-> outs1, src |-> src1]
        ELSE [raised |-> FALSE, hidden_states |-> m_out, residual |-> u2.second,
              calls |-> calls1 \o <<Call("post_attention_layernorm", res1),
                                    Call("mlp", NoTensor)>>,
              outs |-> outs1 \o <<m_out.rows>>,
              src |-> IF u2.split THEN "norm" ELSE "add"]

\* DeciLMDecoderLayer.forward(positions, hidden_states, intermediate_tensors,
\* residual) of layer idx (counted from 0). src is where the incoming residual
\* came from. The result holds the returned pair, the modules invoked, the
\* outputs of the attention and mlp modules, and whether an exception was raised.
DeciLMDecoderLayer_forward(layer, idx, hs, res, src) ==
    LET \* Self Attention, lines 165-178
        n1 == RMSNorm_forward(hs, res)
        u1 == UnpackPair(n1)
        a_in == IF res.is_none THEN n1.out ELSE u1.first
        a_res == IF res.is_none THEN hs ELSE u1.second
        a_out == Tensor(SelfAttn(idx, a_in.rows))
        no_attn == layer._is_no_op_attention
        hs1 == IF no_attn THEN hs ELSE a_out
        res1 == IF no_attn THEN res ELSE a_res
        src1 == IF no_attn THEN src
                ELSE IF res.is_none THEN "hidden_states" ELSE "add"
        calls1 == IF no_attn THEN <<>>
                  ELSE <<Call("input_layernorm", res), Call("self_attn", NoTensor)>>
        outs1 == IF no_attn THEN <<>> ELSE <<a_out.rows>>
        \* Fully Connected, lines 181-184
        n2 == RMSNorm_forward(hs1, res1)
        u2 == UnpackPair(n2)
        m_out == Tensor(Mlp(idx, u2.first.rows))
    IN  IF layer._is_no_op_ffn
        THEN [raised |-> FALSE, hidden_states |-> hs1, residual |-> res1,
              calls |-> calls1, outs |-> outs1, src |-> src1]
        ELSE IF u2.raised
        THEN [raised |-> TRUE, hidden_states |-> hs1, residual |-> res1,
              calls |-> calls1 \o <<Call("post_attention_layernorm", res1)>>,
              outs |-> outs1, src |-> src1]
        ELSE [raised |-> FALSE, hidden_states |-> m_out, residual |-> u2.second,
              calls |-> calls1 \o <<Call("post_attention_layernorm", res1),
                                    Call("mlp", NoTensor)>>,
              outs |-> outs1 \o <<m_out.rows>>,
              src |-> IF u2.split THEN "norm" ELSE "add"]

\* The entries forward adds to the call history.
CallsOf(r, layer, modules) ==
    [k \in 1..Len(modules) |->
        [rank |-> r, layer |-> layer, module |-> modules[k].module,
         residual |-> modules[k].residual]]

InitForward ==
    /\ config \in Configs
    /\ pp_size \in 1..MaxPP
    /\ models = <<>>
    /\ rank = 0
    /\ pc = "new"
    /\ \E t \in 1..MaxTokens :
          /\ input_ids \in [1..t -> 1..MaxTokenId]
          /\ inputs_embeds \in {NoTensor, Tensor([k \in 1..t |-> 7 + k])}
    /\ intermediate_tensors = NoIntermediateTensors
    /\ hidden_states = NoTensor
    /\ residual = NoTensor
    /\ layer_i = 0
    /\ ret = NoReturn
    /\ calls = <<>>
    /\ stack_input = <<>>
    /\ block_outputs = <<>>
    /\ residual_src = "None"
    /\ FfnIdle
    /\ LoadIdle
    /\ SampleIdle

\* DeciModel.__init__ on every rank of the pipeline.
Construct ==
    /\ pc = "new"
    /\ models' = [r \in 1..pp_size |-> DeciModel_init(config, r - 1)]
    /\ pc' = "ready"
    /\ UNCHANGED <<config, pp_size, rank, input_ids, inputs_embeds,
                   intermediate_tensors, hidden_states, residual, layer_i, ret,
                   calls, stack_input, block_outputs, residual_src>>
    /\ UNCHANGED <<ffnVars, lwVars, smpVars>>

\* DeciModel.forward, lines 272-281: where hidden_states and residual start.
ForwardBegin ==
    /\ pc = "ready"
    /\ IF IsFirstRank(rank)
       THEN /\ hidden_states' = IF inputs_embeds.is_none
                                THEN Tensor(Embed(input_ids)) ELSE inputs_embeds
            /\ residual' = NoTensor
            /\ residual_src' = "None"
            /\ calls' = calls \o (IF inputs_embeds.is_none
                                  THEN CallsOf(rank, -1, <<Call("embed_tokens", NoTensor)>>)
                                  ELSE <<>>)
            /\ pc' = "layers"
       ELSE IF intermediate_tensors.is_none
       THEN \* assert intermediate_tensors is not None
            /\ pc' = "raised"
            /\ UNCHANGED <<hidden_states, residual, residual_src, calls>>
       ELSE /\ hidden_states' = intermediate_tensors.hidden_states
            /\ residual' = intermediate_tensors.residual
            /\ residual_src' = "received"
            /\ calls' = calls
            /\ pc' = "layers"
    /\ layer_i' = 0
    /\ stack_input' =
          IF pc' = "raised" THEN <<>>
          ELSE <<hidden_states'.rows>>
               \o (IF residual'.is_none THEN <<>> ELSE <<residual'.rows>>)
    /\ block_outputs' = <<>>
    /\ UNCHANGED <<config, pp_size, models, rank, input_ids, inputs_embeds,
                   intermediate_tensors, ret>>
    /\ UNCHANGED <<ffnVars, lwVars, smpVars>>

\* One iteration of the loop of DeciModel.forward, lines 285-293: both
\* branches call the layer the same way (kv_cache_index is not used).
LayerStep ==
    /\ pc = "layers"
    /\ layer_i < Len(models[rank + 1].layers)
    /\ LET layer == models[rank + 1].layers[layer_i + 1]
           out == DeciLMDecoderLayer_forward(layer, layer_i, hidden_states,
                                             residual, residual_src)
       IN  /\ calls' = calls \o CallsOf(rank, layer_i, out.calls)
           /\ block_outputs' = block_outputs \o out.outs
           /\ IF out.raised
              THEN /\ pc' = "raised"
                   /\ UNCHANGED <<hidden_states, residual, residual_src, layer_i>>
              ELSE /\ pc' = "layers"
                   /\ hidden_states' = out.hidden_states
                   /\ residual' = out.residual
                   /\ residual_src' = out.src
                   /\ layer_i' = layer_i + 1
    /\ UNCHANGED <<config, pp_size, models, rank, input_ids, inputs_embeds,
                   intermediate_tensors, ret, stack_input>>
    /\ UNCHANGED <<ffnVars, lwVars, smpVars>>

\* A faulty variant of the tail of DeciModel.forward: the final normalisation runs on
\* every rank before the pair is handed on.
ForwardEndNormEverywhere ==
    /\ pc = "layers"
    /\ layer_i = Len(models[rank + 1].layers)
    /\ LET u == UnpackPair(RMSNorm_forward(hidden_states, residual))
       IN  /\ calls' = calls \o CallsOf(rank, -1, <<Call("norm", residual)>>)
           /\ IF u.raised
              THEN /\ pc' = "raised"
                   /\ UNCHANGED <<hidden_states, ret>>
              ELSE /\ pc' = "returned"
                   /\ hidden_states' = u.first
                   /\ ret' = IF IsLastRank(rank)
                             THEN [kind |-> "tensor", hidden_states |-> u.first,
                                   residual |-> NoTensor]
                             ELSE [kind |-> "IntermediateTensors",
                                   hidden_states |-> u.first,
                                   residual |-> residual]
    /\ UNCHANGED <<config, pp_size, models, rank, input_ids, inputs_embeds,
                   intermediate_tensors, residual, layer_i, stack_input,
                   block_outputs, residual_src>>
    /\ UNCHANGED <<ffnVars, lwVars, smpVars>>

\* DeciModel.forward, lines 295-302: hand the pair to the next rank, or
\* normalise on the last rank.
ForwardEnd ==
    /\ pc = "layers"
    /\ layer_i = Len(models[rank + 1].layers)
    /\ IF ~IsLastRank(rank)
       THEN /\ ret' = [kind |-> "IntermediateTensors",
                       hidden_states |-> hidden_states, residual |-> residual]
            /\ pc' = "returned"
            /\ UNCHANGED <<hidden_states, calls>>
       ELSE LET u == UnpackPair(RMSNorm_forward(hidden_states, residual))
            IN  /\ calls' = calls \o CallsOf(rank, -1, <<Call("norm", residual)>>)
                /\ IF u.raised
                   THEN /\ pc' = "raised"
                        /\ UNCHANGED <<hidden_states, ret>>
                   ELSE /\ pc' = "returned"
                        /\ hidden_states' = u.first
                        /\ ret' = [kind |-> "tensor", hidden_states |-> u.first,
                                   residual |-> NoTensor]
    /\ UNCHANGED <<config, pp_size, models, rank, input_ids, inputs_embeds,
                   intermediate_tensors, residual, layer_i, stack_input,
                   block_outputs, residual_src>>
    /\ UNCHANGED <<ffnVars, lwVars, smpVars>>

\* The pipeline: the next rank's forward is called, with the tensors the
\* previous rank returned or, by a caller's mistake, with none.
NextRankForward ==
    /\ pc = "returned"
    /\ ~IsLastRank(rank)
    /\ rank' = rank + 1
    /\ intermediate_tensors' \in
          {IntermediateTensors(ret.hidden_states, ret.residual),
           NoIntermediateTensors}
    /\ pc' = "ready"
    /\ hidden_states' = NoTensor
    /\ residual' = NoTensor
    /\ residual_src' = "None"
    /\ layer_i' = 0
    /\ ret' = NoReturn
    /\ UNCHANGED <<config, pp_size, models, input_ids, inputs_embeds, calls,
                   stack_input, block_outputs>>
    /\ UNCHANGED <<ffnVars, lwVars, smpVars>>

NextForward ==
    \/ Construct
    \/ ForwardBegin
    \/ LayerStep
    \/ ForwardEnd
    \/ NextRankForward

SpecForward == InitForward /\ [][NextForward]_vars

\* C2: for every layer index and block configuration, the constructed layer
\* has self_attn and input_layernorm exactly when its attention is not no-op,
\* and has mlp and post_attention_layernorm exactly when its feed-forward is
\* not no-op; each decision reads only its own flag.
C2_SubmodulesFollowNoOpFlags ==
    \A r \in 1..Len(models) :
        /\ Len(models[r].layers) = Len(config.block_configs)
        /\ \A idx \in 1..Len(models[r].layers) :
              LET layer == models[r].layers[idx]
                  block_config == config.block_configs[idx]
              IN  /\ "self_attn" \in layer.modules
                        <=> ~block_config.attention.no_op
                  /\ "input_layernorm" \in layer.modules
                        <=> ~block_config.attention.no_op
                  /\ "mlp" \in layer.modules <=> ~block_config.ffn.no_op
                  /\ "post_attention_layernorm" \in layer.modules
                        <=> ~block_config.ffn.no_op

\* C2 witness: a layer whose attention is no-op and whose feed-forward is
\* active has been constructed with the feed-forward pair only, next to a
\* layer with the opposite flags and the attention pair only.
C2_Witness ==
    /\ pc = "ready"
    /\ \E r \in 1..Len(models) : \E a, b \in 1..Len(models[r].layers) :
          /\ config.block_configs[a].attention.no_op
          /\ ~config.block_configs[a].ffn.no_op
          /\ models[r].layers[a].modules = {"mlp", "post_attention_layernorm"}
          /\ ~config.block_configs[b].attention.no_op
          /\ config.block_configs[b].ffn.no_op
          /\ models[r].layers[b].modules = {"self_attn", "input_layernorm"}

\* The sum, row by row, of a non-empty sequence of tensors of one shape.
RECURSIVE SumRows(_)
SumRows(ts) ==
    IF Len(ts) = 1 THEN ts[1] ELSE AddRows(ts[1], SumRows(Tail(ts)))

SameShape(ts) == \A a, b \in 1..Len(ts) : Len(ts[a]) = Len(ts[b])

\* hidden_states plus residual, as the layers have left them
StreamNow ==
    <<hidden_states.rows>> \o (IF residual.is_none THEN <<>> ELSE <<residual.rows>>)

\* C3: after any prefix of decoder layers, with any mix of active and no-op
\* sub-blocks, the returned residual plus the returned hidden_states equals
\* the initial input of the stack plus the sum of the outputs of every
\* attention and feed-forward module run so far, and the residual is never
\* the output of a normalization.
C3_ResidualIsRunningSum ==
    pc = "layers" =>
        /\ SameShape(StreamNow \o stack_input \o block_outputs)
        /\ SumRows(StreamNow) = SumRows(stack_input \o block_outputs)
        /\ residual_src # "norm"

\* The states C3 fails in: a normalisation was given no residual, returned a
\* single tensor, and the tuple assignment took that tensor's rows apart.
UnpackedSingleTensor == pc = "layers" /\ residual_src = "norm"

\* C4: embedding lookup (or inputs_embeds) is used on the first rank only,
\* where residual starts as None; every other rank starts from the received
\* intermediate tensors and raises without them; the final normalization runs
\* on the last rank only, and a non-last rank returns exactly the pair
\* hidden_states/residual its layers left.
C4_FirstAndLastRankDuties ==
    /\ \A k \in 1..Len(calls) :
          /\ calls[k].module = "embed_tokens" => IsFirstRank(calls[k].rank)
          /\ calls[k].module = "norm" => IsLastRank(calls[k].rank)
    /\ (pc = "layers" /\ layer_i = 0 /\ IsFirstRank(rank)) =>
          /\ residual.is_none
          /\ hidden_states = IF inputs_embeds.is_none
                             THEN Tensor(Embed(input_ids)) ELSE inputs_embeds
    /\ (pc = "layers" /\ layer_i = 0 /\ ~IsFirstRank(rank)) =>
          /\ ~intermediate_tensors.is_none
          /\ hidden_states = intermediate_tensors.hidden_states
          /\ residual = intermediate_tensors.residual
    /\ (pc \in {"layers", "returned"} /\ ~IsFirstRank(rank)) =>
          ~intermediate_tensors.is_none
    /\ (pc = "returned" /\ ~IsLastRank(rank)) =>
          /\ ret = [kind |-> "IntermediateTensors",
                    hidden_states |-> hidden_states, residual |-> residual]
          /\ \A k \in 1..Len(calls) :
                calls[k].rank = rank => calls[k].module # "norm"
    /\ (pc = "returned" /\ IsLastRank(rank)) => ret.kind = "tensor"

\* C4 witness: the last of two ranks has started from the tensors the first
\* rank returned, run its layers and returned the normalised tensor; the
\* first rank embedded input_ids.
C4_Witness ==
    /\ pp_size = 2
    /\ rank = 1
    /\ pc = "returned"
    /\ ret.kind = "tensor"
    /\ ~intermediate_tensors.is_none
    /\ stack_input = <<intermediate_tensors.hidden_states.rows,
                       intermediate_tensors.residual.rows>>
    /\ \E k \in 1..Len(calls) :
          calls[k].module = "embed_tokens" /\ calls[k].rank = 0
    /\ calls[Len(calls)] = [rank |-> 1, layer |-> -1, module |-> "norm",
                             residual |-> "Tensor"]

\* The normalisation calls whose result is unpacked as a pair
\* (hidden_states, residual): lines 182-183 and line 301.
UnpackedNormCalls ==
    {k \in 1..Len(calls) : calls[k].module \in {"post_attention_layernorm", "norm"}}

\* C11: for every per-layer block configuration, a first layer with no-op
\* attention and a model of no-op layers included, the residual is not None
\* at any normalisation call whose result is unpacked as a pair: the
\* post-attention normalisation of a layer with active feed-forward, and the
\* final normalisation on the last rank.
C11_ResidualDefinedAtUnpackedNorms ==
    \A k \in UnpackedNormCalls : calls[k].residual # "None"

\* The calls a step has added to the call history.
NewCalls == SubSeq(calls', Len(calls) + 1, Len(calls'))

\* C12: a decoder layer whose attention and feed-forward are both no-op
\* returns the hidden_states and residual it was given, unchanged, and calls
\* no normalisation, attention or feed-forward module; a layer with one no-op
\* sub-block leaves the stream untouched by that sub-block: the other
\* sub-block alone acts, on the stream as the layer was given it.
C12_NoOpSubBlocksLeaveStream ==
    [][(pc = "layers" /\ layer_i < Len(config.block_configs)) =>
        LET block_config == config.block_configs[layer_i + 1]
            no_attn == block_config.attention.no_op
            no_ffn == block_config.ffn.no_op
            sum == IF residual.is_none THEN hidden_states.rows
                   ELSE AddRows(hidden_states.rows, residual.rows)
        IN  /\ (no_attn /\ no_ffn) =>
                  /\ hidden_states' = hidden_states
                  /\ residual' = residual
                  /\ calls' = calls
                  /\ block_outputs' = block_outputs
                  /\ pc' = "layers"
                  /\ layer_i' = layer_i + 1
            /\ (no_attn /\ ~no_ffn) =>
                  /\ Len(NewCalls) >= 1
                  /\ NewCalls[1] = [rank |-> rank, layer |-> layer_i,
                                    module |-> "post_attention_layernorm",
                                    residual |-> IF residual.is_none
                                                 THEN "None" ELSE "Tensor"]
                  /\ \A k \in 1..Len(NewCalls) :
                        NewCalls[k].module \in {"post_attention_layernorm", "mlp"}
                  /\ ~residual.is_none =>
                        /\ residual' = Tensor(sum)
                        /\ hidden_states' = Tensor(Mlp(layer_i, Norm(sum)))
                        /\ block_outputs' = block_outputs \o <<hidden_states'.rows>>
            /\ (~no_attn /\ no_ffn) =>
                  /\ Len(NewCalls) = 2
                  /\ NewCalls[1].module = "input_layernorm"
                  /\ NewCalls[2].module = "self_attn"
                  /\ residual' = Tensor(sum)
                  /\ hidden_states' = Tensor(SelfAttn(layer_i, Norm(sum)))
                  /\ block_outputs' = block_outputs \o <<hidden_states'.rows>>
      ]_vars

\* C12 witness: on the first rank a layer with active attention and no-op
\* feed-forward has run, then a layer with both sub-blocks no-op, which called
\* nothing and left hidden_states (the attention output) and residual as
\* they were.
C12_Witness ==
    /\ pc = "layers"
    /\ rank = 0
    /\ layer_i = 2
    /\ ~config.block_configs[1].attention.no_op
    /\ config.block_configs[1].ffn.no_op
    /\ config.block_configs[2].attention.no_op
    /\ config.block_configs[2].ffn.no_op
    /\ \A k \in 1..Len(calls) : calls[k].layer # 1
    /\ Len(block_outputs) = 1
    /\ hidden_states.rows = block_outputs[1]
    /\ ~residual.is_none
    /\ residual.rows = stack_input[1]

-----------------------------------------------------------------------------
(***************************************************************************)
(* Weight loading.  Names are strings; `in`, startswith, endswith and       *)
(* str.replace are computed on the characters.                              *)
(***************************************************************************)

MaxEntries == 2

\* weight_name in name
Contains(s, f) ==
    \E i \in 1..(Len(s) - Len(f) + 1) : SubSeq(s, i, i + Len(f) - 1) = f

StartsWith(s, prefix) ==
    Len(s) >= Len(prefix) /\ SubSeq(s, 1, Len(prefix)) = prefix

EndsWith(s, suffix) ==
    Len(s) >= Len(suffix) /\ SubSeq(s, Len(s) - Len(suffix) + 1, Len(s)) = suffix

\* name.replace(old, new): every occurrence, left to right
RECURSIVE Replace(_, _, _)
Replace(s, old, new) ==
    IF Len(s) < Len(old) THEN s
    ELSE IF SubSeq(s, 1, Len(old)) = old
    THEN new \o Replace(SubSeq(s, Len(old) + 1, Len(s)), old, new)
    ELSE SubSeq(s, 1, 1) \o Replace(SubSeq(s, 2, Len(s)), old, new)

\* stacked_params_mapping: (param_name, shard_name, shard_id). The integer
\* shard ids 0 and 1 are written as the strings "0" and "1".
stacked_params_mapping ==
    << [param_name |-> ".qkv_proj", weight_name |-> ".q_proj", shard_id |-> "q"],
       [param_name |-> ".qkv_proj", weight_name |-> ".k_proj", shard_id |-> "k"],
       [param_name |-> ".qkv_proj", weight_name |-> ".v_proj", shard_id |-> "v"],
       [param_name |-> ".gate_up_proj", weight_name |-> ".gate_proj", shard_id |-> "0"],
       [param_name |-> ".gate_up_proj", weight_name |-> ".up_proj", shard_id |-> "1"] >>

\* DeciLMForCausalLM.mistral_mapping
mistral_mapping ==
    [k \in {"layers", "attention", "wq", "wk", "wv", "wo", "attention_norm",
            "feed_forward", "w1", "w2", "w3", "ffn_norm", "tok_embeddings",
            "output", "norm"} |->
        CASE k = "layers" -> "model.layers"
          [] k = "attention" -> "self_attn"
          [] k = "wq" -> "q_proj"
          [] k = "wk" -> "k_proj"
          [] k = "wv" -> "v_proj"
          [] k = "wo" -> "o_proj"
          [] k = "attention_norm" -> "input_layernorm"
          [] k = "feed_forward" -> "mlp"
          [] k = "w1" -> "gate_proj"
          [] k = "w2" -> "down_proj"
          [] k = "w3" -> "up_proj"
          [] k = "ffn_norm" -> "post_attention_layernorm"
          [] k = "tok_embeddings" -> "model.embed_tokens"
          [] k = "output" -> "lm_head"
          [] k = "norm" -> "model.norm"]

\* Tensors of a checkpoint: a 0-dim scalar and a 1-dim vector.
Scalar(v) == [dim |-> 0, data |-> <<v>>]
Vector(data) == [dim |-> 1, data |-> data]

\* loaded_weight[0]
FirstElement(w) == Scalar(w.data[1])

\* The names a checkpoint may hold, as DeciLMForCausalLM.load_weights gets them.
CheckpointNames ==
    {"model.embed_tokens.weight",
     "model.norm.weight",
     "lm_head.weight",
     "model.layers.0.self_attn.q_proj.weight",
     "model.layers.0.self_attn.k_proj.weight",
     "model.layers.0.self_attn.v_proj.weight",
     "model.layers.0.self_attn.o_proj.weight",
     "model.layers.0.self_attn.q_proj.bias",
     "model.layers.0.self_attn.o_proj.bias",
     "model.layers.0.mlp.gate_proj.weight",
     "model.layers.0.mlp.up_proj.weight",
     "model.layers.0.post_attention_layernorm.weight",
     "model.layers.0.self_attn.rotary_emb.inv_freq",
     "model.layers.0.self_attn.rotary_emb.cos_cached",
     "model.layers.0.self_attn.rotary_emb.sin_cached",
     "model.layers.0.self_attn.k_proj.output_scale",
     "model.layers.0.self_attn.k_scale",
     "model.layers.0.self_attn.k_proj.k_scale",
     "model.layers.0.self_attn.q_proj.weight_scale",
     "model.layers.0.mlp.down_proj.weight_scale",
     "layers.0.attention.wq.weight",
     "tok_embeddings.weight"}

\* The tensors a checkpoint may hold under a name: weights and biases are
\* vectors, a scale is stored as a scalar or as a vector of one or more scales.
CheckpointWeights(name) ==
    IF Contains(name, "scale") THEN {Scalar(5), Vector(<<6, 7>>)}
    ELSE {Vector(<<6, 7>>)}

\* dict(self.named_parameters()) of a DeciModel: the parameters of the
\* sub-modules __init__ built (a PPMissingLayer has none).
NamedParameters(model, quant, bias) ==
    (IF model.embed_tokens = "PPMissingLayer" THEN {} ELSE {"embed_tokens.weight"})
    \cup (IF model.norm = "PPMissingLayer" THEN {} ELSE {"norm.weight"})
    \cup UNION {
        LET prefix == "layers." \o ToString(idx - 1)
            modules == model.layers[idx].modules
        IN  (IF "self_attn" \in modules
             THEN {prefix \o ".self_attn.qkv_proj.weight",
                   prefix \o ".self_attn.o_proj.weight"}
                  \cup (IF bias THEN {prefix \o ".self_attn.qkv_proj.bias"} ELSE {})
                  \cup (IF quant # None
                        THEN {prefix \o ".self_attn.attn.k_scale",
                              prefix \o ".self_attn.attn.v_scale",
                              prefix \o ".self_attn.qkv_proj.weight_scale"}
                        ELSE {})
             ELSE {})
            \cup (IF "input_layernorm" \in modules
                  THEN {prefix \o ".input_layernorm.weight"} ELSE {})
            \cup (IF "mlp" \in modules
                  THEN {prefix \o ".mlp.gate_up_proj.weight",
                        prefix \o ".mlp.down_proj.weight"}
                       \cup (IF quant # None
                             THEN {prefix \o ".mlp.down_proj.weight_scale"}
                             ELSE {})
                  ELSE {})
            \cup (IF "post_attention_layernorm" \in modules
                  THEN {prefix \o ".post_attention_layernorm.weight"} ELSE {})
        : idx \in 1..Len(model.layers)}

\* self.quant_config.get_cache_scale(name): the kv-cache scale parameter an
\* output scale of k_proj or v_proj is an alias of, or None.
get_cache_scale(name) ==
    IF EndsWith(name, ".output_scale") /\ Contains(name, ".k_proj")
    THEN Replace(name, ".k_proj.output_scale", ".attn.k_scale")
    ELSE IF EndsWith(name, ".output_scale") /\ Contains(name, ".v_proj")
    THEN Replace(name, ".v_proj.output_scale", ".attn.v_scale")
    ELSE None

\* maybe_remap_kv_scale_name(name, params_dict): the FP8 kv-scale names are
\* moved under .attn; None when the remapped name is no parameter.
maybe_remap_kv_scale_name(name, pd) ==
    IF EndsWith(name, ".kv_scale")
    THEN LET remapped == Replace(name, ".kv_scale", ".attn.k_scale")
         IN  IF remapped \in pd THEN remapped ELSE None
    ELSE IF EndsWith(name, ".k_scale")
    THEN LET remapped == Replace(name, ".k_scale", ".attn.k_scale")
         IN  IF remapped \in pd THEN remapped ELSE None
    ELSE IF EndsWith(name, ".v_scale")
    THEN LET remapped == Replace(name, ".v_scale", ".attn.v_scale")
         IN  IF remapped \in pd THEN remapped ELSE None
    ELSE name

\* is_pp_missing_parameter(name, self): the name lies under a PPMissingLayer.
is_pp_missing_parameter(name, model) ==
    \/ model.embed_tokens = "PPMissingLayer" /\ StartsWith(name, "embed_tokens.")
    \/ model.norm = "PPMissingLayer" /\ StartsWith(name, "norm.")

\* What one iteration of the loop of DeciModel.load_weights did.
Skipped == [kind |-> "skipped", loads |-> <<>>, added |-> ""]
Raised(error) == [kind |-> error, loads |-> <<>>, added |-> ""]
Loaded(param, shard_id, value) ==
    [kind |-> "loaded",
     loads |-> <<[param |-> param, shard_id |-> shard_id, value |-> value]>>,
     added |-> param]

\* The else clause of the for loop, lines 355-366, then line 367.
ElseBranch(name, w, pd, model) ==
    IF EndsWith(name, ".bias") /\ name \notin pd THEN Skipped
    ELSE IF is_pp_missing_parameter(name, model) THEN Skipped
    ELSE IF name \notin pd THEN Raised("KeyError")
    ELSE Loaded(name, "None", w)

\* A faulty variant of the for loop: the break after the sharded load is missing, so
\* the loop goes on and its else clause runs too.
RECURSIVE StackedLoopNoBreak(_, _, _, _, _)
StackedLoopNoBreak(k, name, w, pd, model) ==
    IF k > Len(stacked_params_mapping) THEN ElseBranch(name, w, pd, model)
    ELSE LET m == stacked_params_mapping[k]
             renamed == Replace(name, m.weight_name, m.param_name)
         IN  IF ~Contains(name, m.weight_name)
             THEN StackedLoopNoBreak(k + 1, name, w, pd, model)
             ELSE IF EndsWith(renamed, ".bias") /\ renamed \notin pd
             THEN StackedLoopNoBreak(k + 1, renamed, w, pd, model)
             ELSE IF is_pp_missing_parameter(renamed, model)
             THEN StackedLoopNoBreak(k + 1, renamed, w, pd, model)
             ELSE IF renamed \notin pd THEN Raised("KeyError")
             ELSE LET rest == StackedLoopNoBreak(k + 1, renamed, w, pd, model)
                  IN  [kind |-> rest.kind,
                       loads |-> Loaded(renamed, m.shard_id, w).loads \o rest.loads,
                       added |-> rest.added]

\* A faulty variant of the for loop: every fused projection is loaded as shard "q".
RECURSIVE StackedLoopShardQ(_, _, _, _, _)
StackedLoopShardQ(k, name, w, pd, model) ==
    IF k > Len(stacked_params_mapping) THEN ElseBranch(name, w, pd, model)
    ELSE LET m == stacked_params_mapping[k]
             renamed == Replace(name, m.weight_name, m.param_name)
         IN  IF ~Contains(name, m.weight_name)
             THEN StackedLoopShardQ(k + 1, name, w, pd, model)
             ELSE IF EndsWith(renamed, ".bias") /\ renamed \notin pd
             THEN StackedLoopShardQ(k + 1, renamed, w, pd, model)
             ELSE IF is_pp_missing_parameter(renamed, model)
             THEN StackedLoopShardQ(k + 1, renamed, w, pd, model)
             ELSE IF renamed \notin pd THEN Raised("KeyError")
             ELSE Loaded(renamed, "q", w)

\* The for loop over stacked_params_mapping, lines 340-354, from its k-th
\* entry on. A `continue` inside the loop goes to the next mapping entry with
\* the name already renamed; the loop's else clause runs when no entry broke
\* out of it.
RECURSIVE StackedLoop(_, _, _, _, _)
StackedLoop(k, name, w, pd, model) ==
    IF k > Len(stacked_params_mapping) THEN ElseBranch(name, w, pd, model)
    ELSE LET m == stacked_params_mapping[k]
             renamed == Replace(name, m.weight_name, m.param_name)
         IN  IF ~Contains(name, m.weight_name)
             THEN StackedLoop(k + 1, name, w, pd, model)
             ELSE IF EndsWith(renamed, ".bias") /\ renamed \notin pd
             THEN StackedLoop(k + 1, renamed, w, pd, model)
             ELSE IF is_pp_missing_parameter(renamed, model)
             THEN StackedLoop(k + 1, renamed, w, pd, model)
             ELSE IF renamed \notin pd THEN Raised("KeyError")
             ELSE Loaded(renamed, m.shard_id, w)

\* A faulty variant of the loop body: the kv-cache scale is loaded whole, not as its
\* first element.
LoadWeightsEntryWholeScale(name, w, pd, quant, model) ==
    IF Contains(name, "rotary_emb.inv_freq") THEN Skipped
    ELSE IF Contains(name, "rotary_emb.cos_cached")
            \/ Contains(name, "rotary_emb.sin_cached") THEN Skipped
    ELSE IF quant # None /\ get_cache_scale(name) # None
    THEN LET scale_name == get_cache_scale(name)
         IN  IF scale_name \notin pd THEN Raised("KeyError")
             ELSE Loaded(scale_name, "None", w)
    ELSE LET remapped == IF Contains(name, "scale")
                         THEN maybe_remap_kv_scale_name(name, pd) ELSE name
         IN  IF remapped = None THEN Skipped
             ELSE StackedLoop(1, remapped, w, pd, model)

\* A faulty variant of the loop body: the rotary_emb.cos_cached / sin_cached entries
\* are not skipped.
LoadWeightsEntryKeepsCached(name, w, pd, quant, model) ==
    IF Contains(name, "rotary_emb.inv_freq") THEN Skipped
    ELSE IF quant # None /\ get_cache_scale(name) # None
    THEN LET scale_name == get_cache_scale(name)
         IN  IF scale_name \notin pd THEN Raised("KeyError")
             ELSE Loaded(scale_name, "None",
                         IF w.dim = 0 THEN w ELSE FirstElement(w))
    ELSE LET remapped == IF Contains(name, "scale")
                         THEN maybe_remap_kv_scale_name(name, pd) ELSE name
         IN  IF remapped = None THEN Skipped
             ELSE StackedLoop(1, remapped, w, pd, model)

\* The body of the loop of DeciModel.load_weights, lines 316-367, for one
\* (name, loaded_weight): the weight loader calls it makes and the name it
\* adds to loaded_params.
DeciModel_load_weights_entry(name, w, pd, quant, model) ==
    IF Contains(name, "rotary_emb.inv_freq") THEN Skipped
    ELSE IF Contains(name, "rotary_emb.cos_cached")
            \/ Contains(name, "rotary_emb.sin_cached") THEN Skipped
    ELSE IF quant # None /\ get_cache_scale(name) # None
    THEN \* Loading kv cache quantization scales
         LET scale_name == get_cache_scale(name)
         IN  IF scale_name \notin pd THEN Raised("KeyError")
             ELSE Loaded(scale_name, "None",
                         IF w.dim = 0 THEN w ELSE FirstElement(w))
    ELSE LET remapped == IF Contains(name, "scale")
                         THEN maybe_remap_kv_scale_name(name, pd) ELSE name
         IN  IF remapped = None THEN Skipped
             ELSE StackedLoop(1, remapped, w, pd, model)

\* AutoWeightsLoader(self, skip_prefixes).load_weights: where an entry of
\* the checkpoint goes. Entries under a skip prefix are dropped; the others go
\* to the child module their first name component names, with the rest of
\* the name; a name that names no child raises ValueError.
AutoWeightsLoader_route(name, skip_lm_head) ==
    IF skip_lm_head /\ StartsWith(name, "lm_head.")
    THEN [target |-> "skip", rest |-> name]
    ELSE IF StartsWith(name, "model.")
    THEN [target |-> "model", rest |-> SubSeq(name, 7, Len(name))]
    ELSE IF StartsWith(name, "lm_head.")
    THEN [target |-> "lm_head", rest |-> SubSeq(name, 9, Len(name))]
    ELSE [target |-> "ValueError", rest |-> name]

\* The parameter of lm_head: ParallelLMHead on the last rank, PPMissingLayer
\* (no parameters, its entries are passed over) elsewhere.
LmHeadEntry(rest, w, r) ==
    IF ~IsLastRank(r) THEN Skipped
    ELSE IF rest = "weight" THEN Loaded("weight", "None", w)
    ELSE Raised("ValueError")

\* The loader calls of one entry, applied to the parameters in order.
RECURSIVE ApplyLoads(_, _, _)
ApplyLoads(written, prefix, loads) ==
    IF loads = <<>> THEN written
    ELSE LET l == Head(loads)
             full == prefix \o l.param
         IN  ApplyLoads({x \in written : ~(x.name = full /\ x.shard_id = l.shard_id)}
                            \cup {[name |-> full, shard_id |-> l.shard_id,
                                   value |-> l.value]},
                        prefix, Tail(loads))

LoadConfigs ==
    {c \in Configs :
        /\ Len(c.block_configs) = 1
        /\ c.block_configs[1].ffn.ffn_mult_num = FfnMultDen}

InitLoad ==
    /\ config \in LoadConfigs
    /\ pp_size \in 1..MaxPP
    /\ rank \in 0..(pp_size - 1)
    /\ models = [r \in 1..pp_size |-> DeciModel_init(config, r - 1)]
    /\ pc = "idle"
    /\ input_ids = <<>>
    /\ inputs_embeds = NoTensor
    /\ intermediate_tensors = NoIntermediateTensors
    /\ hidden_states = NoTensor
    /\ residual = NoTensor
    /\ layer_i = 0
    /\ ret = NoReturn
    /\ calls = <<>>
    /\ stack_input = <<>>
    /\ block_outputs = <<>>
    /\ residual_src = "None"
    /\ FfnIdle
    /\ SampleIdle
    /\ lw_pc = "loading"
    /\ quant_config \in {None, "fp8"}
    /\ attention_bias \in BOOLEAN
    /\ params_dict = NamedParameters(models[rank + 1], quant_config, attention_bias)
    /\ params = {}
    /\ loaded_params = {}
    /\ called = {}
    /\ autoloaded = {}
    /\ lw_group = ""
    /\ lw_count = 0
    /\ lw_last = NoEntry
    /\ lw_prev_kind = "none"

\* DeciLMForCausalLM.load_weights reads the next entry of the checkpoint: the
\* (name, tensor) pairs go to AutoWeightsLoader as they are, which streams
\* each run of "model." entries to one call of DeciModel.load_weights.
LoadEntry ==
    /\ lw_pc = "loading"
    /\ lw_count < MaxEntries
    /\ \E name \in CheckpointNames : \E w \in CheckpointWeights(name) :
       \E route \in {AutoWeightsLoader_route(name, config.tie_word_embeddings)} :
       \E out \in {CASE route.target = "model" ->
                        DeciModel_load_weights_entry(route.rest, w, params_dict,
                            quant_config, models[rank + 1])
                     [] route.target = "lm_head" ->
                        LmHeadEntry(route.rest, w, rank)
                     [] route.target = "skip" -> Skipped
                     [] OTHER -> Raised("ValueError")} :
          LET new_call == route.target = "model" /\ lw_group # "model"
              loaded0 == IF new_call THEN {} ELSE loaded_params
              called0 == IF new_call THEN {} ELSE called
              prefix == IF route.target = "model" THEN "model."
                        ELSE IF route.target = "lm_head" THEN "lm_head."
                        ELSE ""
          IN  /\ lw_last' = [name |-> name, weight |-> w, kind |-> out.kind,
                             dispatched |-> name, loads |-> out.loads,
                             added |-> out.added, params_before |-> params,
                             loaded_before |-> loaded0]
              /\ lw_prev_kind' = lw_last.kind
              /\ params' = ApplyLoads(params, prefix, out.loads)
              /\ lw_group' = IF route.target \in {"model", "lm_head"}
                             THEN route.target ELSE lw_group
              /\ loaded_params' =
                    IF route.target = "model" /\ out.added # ""
                    THEN loaded0 \cup {out.added}
                    ELSE IF route.target = "model" THEN loaded0
                    ELSE loaded_params
              /\ called' =
                    IF route.target = "model"
                    THEN called0 \cup {out.loads[k].param : k \in 1..Len(out.loads)}
                    ELSE called
              /\ autoloaded' =
                    IF out.added # "" THEN autoloaded \cup {prefix \o out.added}
                    ELSE autoloaded
              /\ lw_pc' = IF out.kind \in {"loaded", "skipped"}
                          THEN "loading" ELSE "raised"
    /\ lw_count' = lw_count + 1
    /\ UNCHANGED <<quant_config, attention_bias, params_dict>>
    /\ UNCHANGED <<ffnVars, fwdVars, smpVars>>

\* The checkpoint is exhausted: the sets are returned.
LoadReturn ==
    /\ lw_pc = "loading"
    /\ lw_pc' = "returned"
    /\ UNCHANGED <<quant_config, attention_bias, params_dict, params,
                   loaded_params, called, autoloaded, lw_group, lw_count,
                   lw_last, lw_prev_kind>>
    /\ UNCHANGED <<ffnVars, fwdVars, smpVars>>

NextLoad == LoadEntry \/ LoadReturn

SpecLoad == InitLoad /\ [][NextLoad]_vars

\* The entry read last went to DeciModel.load_weights, under this name.
LastToModel == lw_last.kind # "none" /\ StartsWith(lw_last.name, "model.")
LastName == SubSeq(lw_last.name, 7, Len(lw_last.name))

\* C5: an entry whose name contains .q_proj, .k_proj or .v_proj is loaded
\* into the parameter named with that fragment replaced by .qkv_proj, with
\* shard id q, k or v, and one whose name contains .gate_proj or .up_proj into
\* the .gate_up_proj parameter with shard id 0 or 1; the returned set holds
\* the fused parameter name, and no shard name, however many shards were loaded.
C5_FusedProjectionDispatch ==
    /\ LastToModel =>
          \A k \in 1..Len(stacked_params_mapping) :
             LET m == stacked_params_mapping[k]
                 fused == Replace(LastName, m.weight_name, m.param_name)
             IN  (Contains(LastName, m.weight_name) /\ fused \in params_dict) =>
                    /\ lw_last.loads = <<[param |-> fused, shard_id |-> m.shard_id,
                                          value |-> lw_last.weight]>>
                    /\ [name |-> "model." \o fused, shard_id |-> m.shard_id,
                        value |-> lw_last.weight] \in params
                    /\ fused \in loaded_params
    /\ \A n \in loaded_params : \A k \in 1..Len(stacked_params_mapping) :
          ~Contains(n, stacked_params_mapping[k].weight_name)

\* C5 witness: the q and k shards of one attention block have both been
\* loaded into qkv_proj, and the returned set holds the fused name alone.
C5_Witness ==
    /\ lw_pc = "returned"
    /\ loaded_params = {"layers.0.self_attn.qkv_proj.weight"}
    /\ {x.shard_id : x \in {y \in params :
            y.name = "model.layers.0.self_attn.qkv_proj.weight"}} = {"q", "k"}

\* name.split(".") holds key
HasModule(name, key) ==
    \/ name = key
    \/ StartsWith(name, key \o ".")
    \/ EndsWith(name, "." \o key)
    \/ Contains(name, "." \o key \o ".")

\* The Mistral-style keys C6 lists.
ClaimedMistralKeys ==
    {"wq", "wk", "wv", "wo", "feed_forward", "w1", "w2", "w3",
     "attention_norm", "ffn_norm", "tok_embeddings", "output"}

\* C6: a checkpoint entry named with Mistral-style keys is translated by the
\* weight loader to the corresponding model parameter name before it is
\* dispatched: the name handed to the dispatch holds mistral_mapping[key] for
\* every listed key of the entry's name, and the dispatch finds a module for it.
C6_MistralKeysTranslated ==
    lw_last.kind # "none" =>
        \A key \in ClaimedMistralKeys :
            HasModule(lw_last.name, key) =>
                /\ Contains(lw_last.dispatched, mistral_mapping[key])
                /\ lw_last.kind # "ValueError"

\* C7: when the quantization config maps the entry's name to a cache-scale
\* parameter, the value (its first element when it is not a scalar) is loaded
\* into that parameter, the alias name is recorded and nothing else is
\* dispatched for the entry; otherwise an entry whose name contains "scale" is
\* renamed by the kv-scale remapping, and when that yields no name the entry
\* is skipped and nothing is recorded.
C7_ScaleAliases ==
    LastToModel =>
        LET scale_name == get_cache_scale(LastName)
            aliased == quant_config # None /\ scale_name # None
            w == lw_last.weight
            remapped == maybe_remap_kv_scale_name(LastName, params_dict)
        IN  /\ (aliased /\ scale_name \in params_dict) =>
                  /\ lw_last.loads =
                        <<[param |-> scale_name, shard_id |-> "None",
                           value |-> IF w.dim = 0 THEN w ELSE Scalar(w.data[1])]>>
                  /\ lw_last.added = scale_name
                  /\ scale_name \in loaded_params
                  /\ loaded_params = lw_last.loaded_before \cup {scale_name}
            /\ (~aliased /\ Contains(LastName, "scale") /\ remapped = None) =>
                  /\ lw_last.kind = "skipped"
                  /\ lw_last.loads = <<>>
                  /\ loaded_params = lw_last.loaded_before
                  /\ params = lw_last.params_before
            /\ (~aliased /\ Contains(LastName, "scale") /\ remapped # None
                    /\ lw_last.kind = "loaded") =>
                  \/ lw_last.added = remapped
                  \/ \E k \in 1..Len(stacked_params_mapping) :
                        lw_last.added =
                            Replace(remapped,
                                    stacked_params_mapping[k].weight_name,
                                    stacked_params_mapping[k].param_name)

\* C7 witness: a vector under an output_scale name of k_proj has been loaded,
\* as its first element, into the kv-cache scale parameter, after a kv-scale
\* entry that remapped to no parameter was skipped.
C7_Witness ==
    /\ quant_config = "fp8"
    /\ lw_prev_kind = "skipped"
    /\ lw_last.name = "model.layers.0.self_attn.k_proj.output_scale"
    /\ lw_last.weight = Vector(<<6, 7>>)
    /\ params = {[name |-> "model.layers.0.self_attn.attn.k_scale",
                  shard_id |-> "None", value |-> Scalar(6)]}
    /\ loaded_params = {"layers.0.self_attn.attn.k_scale"}

\* C9: each entry causes at most one weight loader call; a name is in the
\* returned set exactly when a loader call was made for the parameter of
\* that name; every name in the returned set is a parameter of the model.
C9_LoadedParamsAreLoaderCalls ==
    /\ Len(lw_last.loads) <= 1
    /\ loaded_params = called
    /\ loaded_params \subseteq params_dict
    /\ \A n \in loaded_params : \E x \in params : x.name = "model." \o n

\* C9 witness: load_weights has returned after two entries that each made a
\* loader call, for two different parameters.
C9_Witness ==
    /\ lw_pc = "returned"
    /\ lw_count = 2
    /\ Cardinality(loaded_params) = 2
    /\ Cardinality(called) = 2

\* The name after the fused-projection renaming of the first fragment it holds.
RECURSIVE FusedRenaming(_, _)
FusedRenaming(name, k) ==
    IF k > Len(stacked_params_mapping) THEN name
    ELSE IF Contains(name, stacked_params_mapping[k].weight_name)
    THEN Replace(name, stacked_params_mapping[k].weight_name,
                 stacked_params_mapping[k].param_name)
    ELSE FusedRenaming(name, k + 1)

\* C10: an entry is skipped without error, with every parameter and the set
\* of loaded names unchanged, when its name contains rotary_emb.inv_freq,
\* rotary_emb.cos_cached or rotary_emb.sin_cached, when its name after the
\* fused-projection renaming ends with .bias and is no parameter, or when it
\* belongs to a layer missing on this rank; the loop goes on after it.
C10_SkippedEntries ==
    LastToModel =>
        LET renamed == FusedRenaming(LastName, 1)
            to_skip ==
                \/ Contains(LastName, "rotary_emb.inv_freq")
                \/ Contains(LastName, "rotary_emb.cos_cached")
                \/ Contains(LastName, "rotary_emb.sin_cached")
                \/ EndsWith(renamed, ".bias") /\ renamed \notin params_dict
                \/ is_pp_missing_parameter(LastName, models[rank + 1])
        IN  to_skip =>
                /\ lw_last.kind = "skipped"
                /\ lw_last.loads = <<>>
                /\ params = lw_last.params_before
                /\ loaded_params = lw_last.loaded_before
                /\ lw_pc \in {"loading", "returned"}

\* C10 witness: a rotary_emb.cos_cached entry was read and skipped after an
\* earlier entry had been skipped too, and the loop goes on.
C10_Witness ==
    /\ lw_prev_kind = "skipped"
    /\ lw_last.name = "model.layers.0.self_attn.rotary_emb.cos_cached"
    /\ lw_last.kind = "skipped"
    /\ lw_pc = "loading"

-----------------------------------------------------------------------------
(***************************************************************************)
(* Sampling.                                                               *)
(***************************************************************************)

MaxStreams == 2
MaxLogits == 2

\* A faulty variant of _preprocess_logits: the logit bias is applied before the
\* vocabulary mask is brought up to date.
PreprocessLogitsBiasFirst(stream, done, has_grammars) ==
    <<[op |-> "apply_logits_bias", stream |-> stream]>>
    \o (IF done # None
        THEN (IF has_grammars
              THEN <<[op |-> "sampling_info_done.wait", stream |-> stream]>>
              ELSE <<>>)
        ELSE <<[op |-> "update_regex_vocab_mask", stream |-> stream]>>)

\* _preprocess_logits(logits_output, sampling_info): the calls it makes on
\* sampling_info, in order, for the output of one stream.
_preprocess_logits(stream, done, has_grammars) ==
    (IF done # None
     THEN \* Overlap mode
          (IF has_grammars
           THEN <<[op |-> "sampling_info_done.wait", stream |-> stream]>>
           ELSE <<>>)
     ELSE \* Normal mode
          <<[op |-> "update_regex_vocab_mask", stream |-> stream]>>)
    \o <<[op |-> "apply_logits_bias", stream |-> stream]>>

\* self.sampler(logits_output, ...): the next token ids of one output
Sampler(logits) == 100 + logits

InitSample ==
    /\ smp_pc = "call"
    /\ \E n \in 1..MaxStreams :
          logits_output \in
             [is_tuple : {TRUE}, values : [1..n -> 1..MaxLogits]]
             \cup [is_tuple : {FALSE}, values : [1..1 -> 1..MaxLogits]]
    /\ sampling_info_done \in {None, "Event"}
    /\ event_set = FALSE
    /\ grammars \in BOOLEAN
    /\ smp_i = 0
    /\ events = <<>>
    /\ next_token_ids = <<>>
    /\ FfnIdle
    /\ FwdIdle
    /\ LoadIdle

\* sample is entered: a tuple is sampled element by element, lines 531-535;
\* a single output is the only element.
SampleCall ==
    /\ smp_pc = "call"
    /\ smp_i' = 1
    /\ smp_pc' = "preprocess"
    /\ UNCHANGED <<logits_output, sampling_info_done, event_set, grammars,
                   events, next_token_ids>>
    /\ UNCHANGED <<ffnVars, fwdVars, lwVars>>

\* Line 537. In overlap mode with grammars, wait() returns once the Event is set.
PreprocessLogits ==
    /\ smp_pc = "preprocess"
    /\ (sampling_info_done # None /\ grammars) => event_set
    /\ events' = events \o _preprocess_logits(smp_i, sampling_info_done, grammars)
    /\ smp_pc' = "sampler"
    /\ UNCHANGED <<logits_output, sampling_info_done, event_set, grammars,
                   smp_i, next_token_ids>>
    /\ UNCHANGED <<ffnVars, fwdVars, lwVars>>

\* Lines 540-547: the sampler runs on the element; then the next element of
\* the tuple, or the return.
RunSampler ==
    /\ smp_pc = "sampler"
    /\ events' = events \o <<[op |-> "sampler", stream |-> smp_i]>>
    /\ next_token_ids' = Append(next_token_ids, Sampler(logits_output.values[smp_i]))
    /\ IF smp_i < Len(logits_output.values)
       THEN smp_i' = smp_i + 1 /\ smp_pc' = "preprocess"
       ELSE smp_i' = smp_i /\ smp_pc' = "return"
    /\ UNCHANGED <<logits_output, sampling_info_done, event_set, grammars>>
    /\ UNCHANGED <<ffnVars, fwdVars, lwVars>>

\* The scheduler thread finishes update_regex_vocab_mask for the batch and
\* sets the Event (overlap mode).
SetSamplingInfoDone ==
    /\ smp_pc \in {"call", "preprocess", "sampler"}
    /\ sampling_info_done # None
    /\ ~event_set
    /\ event_set' = TRUE
    /\ UNCHANGED <<smp_pc, logits_output, sampling_info_done, grammars, smp_i,
                   events, next_token_ids>>
    /\ UNCHANGED <<ffnVars, fwdVars, lwVars>>

NextSample ==
    \/ SampleCall
    \/ PreprocessLogits
    \/ RunSampler
    \/ SetSamplingInfoDone

SpecSample == InitSample /\ [][NextSample]_vars

\* The streams whose sampler has run, in the order it ran.
RECURSIVE SampledStreams(_)
SampledStreams(es) ==
    IF es = <<>> THEN <<>>
    ELSE IF Head(es).op = "sampler"
    THEN <<Head(es).stream>> \o SampledStreams(Tail(es))
    ELSE SampledStreams(Tail(es))

\* C8: in every sample call the vocabulary mask is brought up to date first
\* (updated in normal mode; in overlap mode waited for, when there are
\* grammars), then the logit bias is applied, and only then the sampler runs,
\* exactly once; for a tuple this is done once per element, in order.
C8_PostProcessingBeforeSampling ==
    /\ \A k \in 1..Len(events) :
          /\ events[k].op = "sampler" =>
                /\ k >= 2
                /\ events[k - 1] = [op |-> "apply_logits_bias",
                                    stream |-> events[k].stream]
          /\ events[k].op = "apply_logits_bias" =>
                IF sampling_info_done = None
                THEN /\ k >= 2
                     /\ events[k - 1] = [op |-> "update_regex_vocab_mask",
                                         stream |-> events[k].stream]
                ELSE IF grammars
                THEN /\ k >= 2
                     /\ events[k - 1] = [op |-> "sampling_info_done.wait",
                                         stream |-> events[k].stream]
                     /\ event_set
                ELSE k = 1 \/ events[k - 1].op = "sampler"
          /\ events[k].op = "update_regex_vocab_mask" => sampling_info_done = None
          /\ events[k].op = "sampling_info_done.wait" =>
                sampling_info_done # None /\ grammars
    /\ \E n \in 0..Len(logits_output.values) :
          SampledStreams(events) = [j \in 1..n |-> j]
    /\ smp_pc = "return" =>
          /\ SampledStreams(events) = [j \in 1..Len(logits_output.values) |-> j]
          /\ next_token_ids =
                [j \in 1..Len(logits_output.values) |->
                    Sampler(logits_output.values[j])]

\* C8 witness: sample has returned for a tuple of two outputs in overlap
\* mode with grammars: wait, bias, sampler for the first, then for the second.
C8_Witness ==
    /\ smp_pc = "return"
    /\ logits_output.is_tuple
    /\ sampling_info_done = "Event"
    /\ grammars
    /\ Len(events) = 6
    /\ events[1].op = "sampling_info_done.wait"
    /\ events[6] = [op |-> "sampler", stream |-> 2]

=============================================================================
